---- MODULE Spec2Model ----
(***************************************************************************)
(* Model of starknet_py/net/signer/ledger_signer.py: the derivation-path    *)
(* parser and encoder, the LedgerStarknetApp device commands (version,     *)
(* get_public_key, sign_hash) over LedgerClient.apdu_exchange, and the     *)
(* LedgerSigner built on them.                                             *)
(*                                                                         *)
(* Python values:                                                          *)
(*   - a str is a sequence of one-character strings;                       *)
(*   - bytes are a sequence of 0..255;                                     *)
(*   - a non-negative int is its canonical big-endian base-256 magnitude   *)
(*     (no leading zero byte, 0 is << >>), so that 32-bit indices and      *)
(*     256-bit hashes keep their full width; hash_val, which may be        *)
(*     negative, is a record [neg, mag].                                   *)
(***************************************************************************)
EXTENDS Integers, Sequences, FiniteSets, TLC

\* ------------------------------------------------------------------------
\* Python int / bytes primitives
\* ------------------------------------------------------------------------

None == "None"

\* A variable that may hold no value yet: << >>, or <<v>>
Nothing == << >>
Some(v) == <<v>>

RECURSIVE Zeros(_)
\* n zero bytes (the padding int.to_bytes writes).
Zeros(n) == IF n <= 0 THEN << >> ELSE <<0>> \o Zeros(n - 1)

RECURSIVE Strip(_)
\* Canonical magnitude of a big-endian byte string: leading zeros dropped.
Strip(b) == IF b = << >> THEN << >>
            ELSE IF Head(b) = 0 THEN Strip(Tail(b)) ELSE b

\* int.from_bytes(b, byteorder="big")
FromBytes(b) == Strip(b)

RECURSIVE MulAddRev(_, _, _)
\* little-endian digits of n*k + carry, n given little-endian
MulAddRev(rev, k, carry) ==
    IF rev = << >>
    THEN IF carry = 0 THEN << >>
         ELSE <<carry % 256>> \o MulAddRev(<< >>, k, carry \div 256)
    ELSE LET v == Head(rev) * k + carry
         IN  <<v % 256>> \o MulAddRev(Tail(rev), k, v \div 256)

RECURSIVE Reverse(_)
Reverse(s) == IF s = << >> THEN << >> ELSE Reverse(Tail(s)) \o <<Head(s)>>

\* n * k + d on magnitudes, 0 <= k, d small
MulAdd(n, k, d) == Strip(Reverse(MulAddRev(Reverse(n), k, d)))

\* n << 4 on a magnitude: every byte takes its low nibble up and the
\* high nibble of the byte to its right.
ShiftLeft4(n) ==
    LET p == <<0>> \o n \o <<0>>
    IN  Strip([i \in 1..(Len(n) + 1) |->
                  (p[i] % 16) * 16 + (p[i + 1] \div 16)])

\* int.to_bytes(length, byteorder="big") of a non-negative magnitude:
\* OverflowError when it does not fit.
Fits(n, length) == Len(n) <= length
ToBytes(n, length) == Zeros(length - Len(n)) \o n

\* ------------------------------------------------------------------------
\* starknet_py.constants (imported at ledger_signer.py:6-13)
\* ------------------------------------------------------------------------

EIP_2645_PATH_LENGTH == 6
\* 0x80000A55: 2645 with bit 31 set
EIP_2645_PURPOSE == <<128, 0, 10, 85>>
PUBLIC_KEY_LENGTH == 65
SIGNATURE_LENGTH == 64
VERSION_LENGTH == 3

\* ------------------------------------------------------------------------
\* bip_utils: Bip32Utils.HardenIndex, Bip32KeyIndex
\* ------------------------------------------------------------------------

\* Bip32Utils.HardenIndex(index): index | (1 << 31)
HardenIndex(n) ==
    LET p == IF Len(n) < 4 THEN ToBytes(n, 4) ELSE n
        k == Len(p) - 3
    IN  [p EXCEPT ![k] = IF p[k] >= 128 THEN p[k] ELSE p[k] + 128]

\* Bip32KeyIndex(index) raises ValueError unless 0 <= index <= 2^32 - 1
ValidKeyIndex(n) == Fits(n, 4)

\* Bip32KeyIndex.ToBytes(): 4 bytes, big-endian
IndexToBytes(n) == ToBytes(n, 4)

\* ------------------------------------------------------------------------
\* _parse_derivation_path_str, _derivation_path_to_bytes
\* ------------------------------------------------------------------------

EmptyPathError == "Empty derivation path"
LengthError == "Derivation path is not 6-level long"
PrefixError == "Derivation path is not prefixed with m/2645."
InvalidLiteral == "invalid literal for int() with base 10"
InvalidKeyIndex == "Invalid key index"

Digits == <<"0", "1", "2", "3", "4", "5", "6", "7", "8", "9">>
IsDigit(ch) == \E i \in 1..10 : Digits[i] = ch
DigitVal(ch) == (CHOOSE i \in 1..10 : Digits[i] = ch) - 1

RECURSIVE LStrip(_, _)
\* str.lstrip(chars): drops every leading character that is in chars
LStrip(s, chars) ==
    IF s # << >> /\ Head(s) \in chars THEN LStrip(Tail(s), chars) ELSE s

RECURSIVE SplitAcc(_, _, _)
SplitAcc(s, sep, cur) ==
    IF s = << >> THEN <<cur>>
    ELSE IF Head(s) = sep THEN <<cur>> \o SplitAcc(Tail(s), sep, << >>)
    ELSE SplitAcc(Tail(s), sep, Append(cur, Head(s)))

\* str.split(sep): always at least one part, empty parts kept
Split(s, sep) == SplitAcc(s, sep, << >>)

RECURSIVE DecimalAcc(_, _)
DecimalAcc(s, acc) ==
    IF s = << >> THEN acc
    ELSE DecimalAcc(Tail(s), MulAdd(acc, 10, DigitVal(Head(s))))

\* int(s) for s over the model's alphabet: a non-empty run of decimal
\* digits is its value, anything else raises ValueError.
IsIntLiteral(s) == s # << >> /\ \A i \in 1..Len(s) : IsDigit(s[i])
ParseInt(s) == DecimalAcc(s, << >>)

\* One turn of the loop at ledger_signer.py:147-152.
ParsePart(part) ==
    LET hardened == part # << >> /\ part[Len(part)] = "'"
        digits == IF hardened THEN SubSeq(part, 1, Len(part) - 1) ELSE part
    IN  IF ~IsIntLiteral(digits)
        THEN [err |-> InvalidLiteral, index |-> None]
        ELSE LET index == IF hardened THEN HardenIndex(ParseInt(digits))
                          ELSE ParseInt(digits)
             IN  IF ValidKeyIndex(index)
                 THEN [err |-> None, index |-> index]
                 ELSE [err |-> InvalidKeyIndex, index |-> None]

RECURSIVE ParseParts(_, _)
\* The loop: the first part that fails raises, the rest is not looked at.
ParseParts(parts, acc) ==
    IF parts = << >> THEN [err |-> None, path |-> acc]
    ELSE LET e == ParsePart(Head(parts))
         IN  IF e.err # None THEN [err |-> e.err, path |-> None]
             ELSE ParseParts(Tail(parts), Append(acc, e.index))

\* The parser without its first check
_parse_derivation_path_str_no_empty_check(derivation_path_str) ==
    LET path_parts == Split(LStrip(derivation_path_str, {"m", "/"}), "/")
        parsed == ParseParts(path_parts, << >>)
    IN  IF parsed.err # None THEN parsed
        ELSE IF Len(parsed.path) # EIP_2645_PATH_LENGTH
        THEN [err |-> LengthError, path |-> None]
        ELSE IF parsed.path[1] # EIP_2645_PURPOSE
        THEN [err |-> PrefixError, path |-> None]
        ELSE [err |-> None, path |-> parsed.path]

\* The parser refusing only the paths that are too short
_parse_derivation_path_str_short_only(derivation_path_str) ==
    IF derivation_path_str = << >>
    THEN [err |-> EmptyPathError, path |-> None]
    ELSE LET path_parts == Split(LStrip(derivation_path_str, {"m", "/"}), "/")
             parsed == ParseParts(path_parts, << >>)
         IN  IF parsed.err # None THEN parsed
             ELSE IF Len(parsed.path) < EIP_2645_PATH_LENGTH
             THEN [err |-> LengthError, path |-> None]
             ELSE IF parsed.path[1] # EIP_2645_PURPOSE
             THEN [err |-> PrefixError, path |-> None]
             ELSE [err |-> None, path |-> parsed.path]

\* The parser comparing the first element with the plain 2645
_parse_derivation_path_str_plain_purpose(derivation_path_str) ==
    IF derivation_path_str = << >>
    THEN [err |-> EmptyPathError, path |-> None]
    ELSE LET path_parts == Split(LStrip(derivation_path_str, {"m", "/"}), "/")
             parsed == ParseParts(path_parts, << >>)
         IN  IF parsed.err # None THEN parsed
             ELSE IF Len(parsed.path) # EIP_2645_PATH_LENGTH
             THEN [err |-> LengthError, path |-> None]
             ELSE IF parsed.path[1] # <<10, 85>>
             THEN [err |-> PrefixError, path |-> None]
             ELSE [err |-> None, path |-> parsed.path]

_parse_derivation_path_str(derivation_path_str) ==
    IF derivation_path_str = << >>
    THEN [err |-> EmptyPathError, path |-> None]
    ELSE LET path_parts == Split(LStrip(derivation_path_str, {"m", "/"}), "/")
             parsed == ParseParts(path_parts, << >>)
         IN  IF parsed.err # None THEN parsed
             ELSE IF Len(parsed.path) # EIP_2645_PATH_LENGTH
             THEN [err |-> LengthError, path |-> None]
             ELSE IF parsed.path[1] # EIP_2645_PURPOSE
             THEN [err |-> PrefixError, path |-> None]
             ELSE [err |-> None, path |-> parsed.path]

RECURSIVE _derivation_path_to_bytes_reversed(_)
\* The encoder joining the elements last to first
_derivation_path_to_bytes_reversed(derivation_path) ==
    IF derivation_path = << >> THEN << >>
    ELSE _derivation_path_to_bytes_reversed(Tail(derivation_path))
         \o IndexToBytes(Head(derivation_path))

RECURSIVE _derivation_path_to_bytes(_)
_derivation_path_to_bytes(derivation_path) ==
    IF derivation_path = << >> THEN << >>
    ELSE IndexToBytes(Head(derivation_path))
         \o _derivation_path_to_bytes(Tail(derivation_path))

\* ------------------------------------------------------------------------
\* Inputs
\* ------------------------------------------------------------------------

\* Calls a scenario may start: the concurrent one, the single-caller one.
MaxCalls == 2
MaxSeqCalls == 1

Callers == {"A", "B"}

\* "m/2645'/1195502025'/1470455285'/0'/0'/0" (test_ledger_signer.py:13,18
\* use it with one element more, and with another purpose)
TestPathStr ==
    <<"m", "/", "2", "6", "4", "5", "'", "/",
      "1", "1", "9", "5", "5", "0", "2", "0", "2", "5", "'", "/",
      "1", "4", "7", "0", "4", "5", "5", "2", "8", "5", "'", "/",
      "0", "'", "/", "0", "'", "/", "0">>

TestPath == _parse_derivation_path_str(TestPathStr).path

\* Bip32Path values handed to LedgerStarknetApp directly: it takes any path.
NarrowPaths == {TestPath, <<EIP_2645_PURPOSE, << >>, <<1>> >>}
WidePaths == NarrowPaths \cup {<< >>, <<<<255, 255, 255, 255>>>>}

\* byte i of pattern k; pattern 0 is all zeros, the others are not
\* palindromes, so that byte order shows.
Pat(k, i) == (k * (i + 2)) % 256
Bytes(k, n) == [i \in 1..n |-> Pat(k, i)]

\* hash_val: [neg, mag]
PyInt(mag) == [neg |-> FALSE, mag |-> Strip(mag)]
PyNeg(mag) == [neg |-> TRUE, mag |-> Strip(mag)]
\* 2^252 - 1, the largest hash whose shifted value fits 32 bytes, and 2^252
MaxHash == PyInt(<<15>> \o [i \in 1..31 |-> 255])
TooBigHash == PyInt(<<16>> \o Zeros(31))

NarrowHashes == {PyInt(<<1, 35, 69>>), TooBigHash}
WideHashes ==
    NarrowHashes
    \cup {PyInt(<< >>), PyInt(<<7>>), PyInt(<<128>>), MaxHash, PyNeg(<<5>>),
          PyInt(<<8>> \o Bytes(7, 31)), PyInt(Bytes(3, 31)), PyInt(Bytes(5, 33))}

\* What the device may answer to a command: any bytes.
Resp(len, tag, a, b) ==
    SubSeq(<<tag>> \o Bytes(a, 32) \o Bytes(b, 33), 1, len)

NarrowResponses ==
    {Resp(SIGNATURE_LENGTH + 1, SIGNATURE_LENGTH, 3, 5),
     Resp(SIGNATURE_LENGTH + 1, 0, 3, 5),
     <<1, 2, 3>>, << >>}
WideResponses ==
    NarrowResponses
    \cup {Resp(len, tag, a, b) :
            len \in {1, 2, 4, 33, 64, 65, 66}, tag \in {4, 63, 64, 65},
            a \in {0, 3}, b \in {0, 7}}
    \cup {<<0, 0, 0>>, <<10, 200, 255>>}

ChainIds == {"MAINNET", "SEPOLIA"}

\* ------------------------------------------------------------------------
\* State
\* ------------------------------------------------------------------------

VARIABLES
    pc,         \* caller -> where its call stands
    frame,      \* caller -> the call's arguments, locals and outcome
    inflight,   \* the device handle: commands sent and not yet answered
    log,        \* what the transport saw, in order
    ncalls,     \* calls started so far
    path_str,   \* the string the last LedgerSigner(...) was given
    signer,     \* the LedgerSigner, once constructed
    init_err,   \* what the last LedgerSigner(...) raised
    encoded     \* _derivation_path_to_bytes of the signer's path, once taken

signerVars == <<path_str, signer, init_err, encoded>>
appVars == <<pc, frame, inflight, log, ncalls>>
vars == <<pc, frame, inflight, log, ncalls, path_str, signer, init_err, encoded>>

NoSigner == [exists |-> FALSE]

NoRet == [kind |-> "none", val |-> None, err |-> None]
Return(v) == [kind |-> "return", val |-> v, err |-> None]
Raise(e) == [kind |-> "raise", val |-> None, err |-> e]

NoFrame ==
    [op |-> None, call |-> 0, derivation_path |-> None, hash_val |-> None,
     device_confirmation |-> None, response |-> Nothing, ret |-> NoRet,
     via |-> None, arg |-> None, failed |-> FALSE]

Init ==
    /\ pc = [c \in Callers |-> "idle"]
    /\ frame = [c \in Callers |-> NoFrame]
    /\ inflight = {}
    /\ log = << >>
    /\ ncalls = 0
    /\ path_str = Nothing
    /\ signer = NoSigner
    /\ init_err = None
    /\ encoded = Nothing

\* ------------------------------------------------------------------------
\* LedgerClient.apdu_exchange: one command out, one response back
\* ------------------------------------------------------------------------

DeviceCommunicationError == "DeviceCommunicationError"
UnexpectedResponseLength == "ValueError: Unexpected response length"
OverflowError == "OverflowError"

Command(ins, data, p1, p2) == [ins |-> ins, data |-> data, p1 |-> p1, p2 |-> p2]

\* The command goes out on the handle; the caller blocks in apdu_exchange.
Sent(c, call, op, cmd) ==
    [ev |-> "send", caller |-> c, call |-> call, op |-> op, cmd |-> cmd]
Send(c, call, op, cmd) ==
    /\ inflight' = inflight \cup {[caller |-> c, call |-> call, cmd |-> cmd]}
    /\ log' = Append(log, Sent(c, call, op, cmd))

\* The exchange of caller c is over (answered or failed).
InFlightOf(c) == {x \in inflight : x.caller = c}
Over(c) ==
    [ev |-> "over", caller |-> c, call |-> frame[c].call, op |-> frame[c].op,
     cmd |-> (CHOOSE x \in InFlightOf(c) : TRUE).cmd]

\* ------------------------------------------------------------------------
\* LedgerStarknetApp
\* ------------------------------------------------------------------------

RECURSIVE DecStr(_)
\* str(n) of a byte, as f"{major}.{minor}.{patch}" formats it
DecStr(n) == IF n < 10 THEN <<Digits[n + 1]>>
             ELSE DecStr(n \div 10) \o <<Digits[(n % 10) + 1]>>

\* ledger_signer.py:31
version_command == Command(0, << >>, 0, 0)

\* version with the three numbers in the opposite order
version_result_reversed(response) ==
    IF Len(response) # VERSION_LENGTH
    THEN Raise(UnexpectedResponseLength)
    ELSE Return(DecStr(response[3]) \o <<".">> \o DecStr(response[2])
                \o <<".">> \o DecStr(response[1]))

\* ledger_signer.py:32-37
version_result(response) ==
    IF Len(response) # VERSION_LENGTH
    THEN Raise(UnexpectedResponseLength)
    ELSE Return(DecStr(response[1]) \o <<".">> \o DecStr(response[2])
                \o <<".">> \o DecStr(response[3]))

\* ledger_signer.py:50-56
get_public_key_command(derivation_path, device_confirmation) ==
    Command(1, _derivation_path_to_bytes(derivation_path),
            IF device_confirmation THEN 0 ELSE 0, 0)

\* response[a:b], Python's slice: never out of range
Slice(response, a, b) ==
    SubSeq(response, a + 1, IF b < Len(response) THEN b ELSE Len(response))

\* get_public_key cutting the key from offset 0
get_public_key_result_from_0(response) ==
    IF Len(response) # PUBLIC_KEY_LENGTH
    THEN Raise(UnexpectedResponseLength)
    ELSE Return(FromBytes(Slice(response, 0, 32)))

\* get_public_key with the length check left out
get_public_key_result_unchecked(response) ==
    Return(FromBytes(Slice(response, 1, 33)))

\* ledger_signer.py:58-64
get_public_key_result(response) ==
    IF Len(response) # PUBLIC_KEY_LENGTH
    THEN Raise(UnexpectedResponseLength)
    ELSE Return(FromBytes(Slice(response, 1, 33)))

\* ledger_signer.py:76-83
sign_hash_command_1(derivation_path) ==
    Command(0, _derivation_path_to_bytes(derivation_path), 0, 0)

\* sign_hash sending the hash as it is
shifted_int_unshifted(hash_val) == hash_val

\* ledger_signer.py:86
shifted_int(hash_val) ==
    [neg |-> hash_val.neg, mag |-> ShiftLeft4(hash_val.mag)]

\* ledger_signer.py:87: to_bytes raises OverflowError on a negative int
\* and on one that needs more than 32 bytes
CanEncode(x) == ~x.neg /\ Fits(x.mag, 32)
shifted_bytes(hash_val) == ToBytes(shifted_int(hash_val).mag, 32)

\* ledger_signer.py:90-95
sign_hash_command_2(hash_val) == Command(2, shifted_bytes(hash_val), 1, 0)

\* sign_hash checking the length only, not the tag byte
sign_hash_result_no_tag(response) ==
    IF Len(response) # SIGNATURE_LENGTH + 1
    THEN Raise(UnexpectedResponseLength)
    ELSE Return(<<FromBytes(Slice(response, 1, 33)),
                  FromBytes(Slice(response, 33, 65))>>)

\* sign_hash returning [s, r]
sign_hash_result_swapped(response) ==
    IF Len(response) # SIGNATURE_LENGTH + 1 \/ response[1] # SIGNATURE_LENGTH
    THEN Raise(UnexpectedResponseLength)
    ELSE Return(<<FromBytes(Slice(response, 33, 65)),
                  FromBytes(Slice(response, 1, 33))>>)

\* ledger_signer.py:97-105
sign_hash_result(response) ==
    IF Len(response) # SIGNATURE_LENGTH + 1 \/ response[1] # SIGNATURE_LENGTH
    THEN Raise(UnexpectedResponseLength)
    ELSE Return(<<FromBytes(Slice(response, 1, 33)),
                  FromBytes(Slice(response, 33, 65))>>)

\* A caller enters an operation of the app and blocks in its first exchange.
Enter(c, op, path, hash_val, confirm, cmd, at) ==
    /\ pc[c] = "idle"
    /\ ncalls' = ncalls + 1
    /\ frame' = [frame EXCEPT ![c] =
                    [NoFrame EXCEPT !.op = op, !.call = ncalls + 1,
                                    !.derivation_path = path,
                                    !.hash_val = hash_val,
                                    !.device_confirmation = confirm]]
    /\ Send(c, ncalls + 1, op, cmd)
    /\ pc' = [pc EXCEPT ![c] = at]

\* The same, for an operation of the app that a LedgerSigner method (via)
\* calls with what it computed from its own argument (arg).
EnterVia(c, via, arg, op, path, hash_val, confirm, cmd, at) ==
    /\ pc[c] = "idle"
    /\ ncalls' = ncalls + 1
    /\ frame' = [frame EXCEPT ![c] =
                    [NoFrame EXCEPT !.op = op, !.call = ncalls + 1,
                                    !.derivation_path = path,
                                    !.hash_val = hash_val,
                                    !.device_confirmation = confirm,
                                    !.via = via, !.arg = arg]]
    /\ Send(c, ncalls + 1, op, cmd)
    /\ pc' = [pc EXCEPT ![c] = at]

\* The exchange caller c blocks in ends; the call ends with ret.
Leave(c, response, ret) ==
    /\ inflight' = inflight \ InFlightOf(c)
    /\ log' = Append(log, Over(c))
    /\ frame' = [frame EXCEPT ![c].response = response, ![c].ret = ret]
    /\ pc' = [pc EXCEPT ![c] = "returned"]
    /\ UNCHANGED ncalls

\* apdu_exchange raises in the exchange caller c blocks in: no except clause
\* is around it, the error leaves the method as it is.
Fail(c) ==
    /\ inflight' = inflight \ InFlightOf(c)
    /\ log' = Append(log, Over(c))
    /\ frame' = [frame EXCEPT ![c].ret = Raise(DeviceCommunicationError),
                              ![c].failed = TRUE]
    /\ pc' = [pc EXCEPT ![c] = "returned"]
    /\ UNCHANGED ncalls

\* LedgerStarknetApp.version, up to the exchange (line 31)
version_call(c, limit) ==
    /\ ncalls < limit
    /\ Enter(c, "version", None, None, None, version_command, "version")
    /\ UNCHANGED signerVars

\* ... and from the exchange on
version_return(c, responses) ==
    /\ pc[c] = "version"
    /\ \/ \E response \in responses : Leave(c, Some(response), version_result(response))
       \/ Fail(c)
    /\ UNCHANGED signerVars

\* LedgerStarknetApp.get_public_key, up to the exchange (lines 50-56)
get_public_key_call(c, limit, paths) ==
    /\ ncalls < limit
    /\ \E path \in paths, confirm \in BOOLEAN :
          Enter(c, "get_public_key", path, None, confirm,
                get_public_key_command(path, confirm), "get_public_key")
    /\ UNCHANGED signerVars

get_public_key_return(c, responses) ==
    /\ pc[c] = "get_public_key"
    /\ \/ \E response \in responses :
             Leave(c, Some(response), get_public_key_result(response))
       \/ Fail(c)
    /\ UNCHANGED signerVars

\* sign_hash going straight to the second command
sign_hash_call_no_phase_1(c, limit, paths, hashes) ==
    /\ ncalls < limit
    /\ \E path \in paths, hash_val \in hashes :
          Enter(c, "sign_hash", path, hash_val, None,
                sign_hash_command_2(hash_val), "sign_hash_2")
    /\ UNCHANGED signerVars

\* LedgerStarknetApp.sign_hash, up to the first exchange (lines 76-83)
sign_hash_call(c, limit, paths, hashes) ==
    /\ ncalls < limit
    /\ \E path \in paths, hash_val \in hashes :
          Enter(c, "sign_hash", path, hash_val, None,
                sign_hash_command_1(path), "sign_hash_1")
    /\ UNCHANGED signerVars

\* sign_hash checking that the first exchange answered something
sign_hash_phase_2_checked(c, responses) ==
    /\ pc[c] = "sign_hash_1"
    /\ \/ Fail(c)
       \/ \E response \in responses :
             IF response = << >>
             THEN Leave(c, Nothing, Raise(UnexpectedResponseLength))
             ELSE IF ~CanEncode(shifted_int(frame[c].hash_val))
             THEN Leave(c, Nothing, Raise(OverflowError))
             ELSE /\ inflight' = (inflight \ InFlightOf(c))
                       \cup {[caller |-> c, call |-> frame[c].call,
                              cmd |-> sign_hash_command_2(frame[c].hash_val)]}
                  /\ log' = log \o <<Over(c),
                                     Sent(c, frame[c].call, frame[c].op,
                                          sign_hash_command_2(frame[c].hash_val))>>
                  /\ pc' = [pc EXCEPT ![c] = "sign_hash_2"]
                  /\ UNCHANGED <<frame, ncalls>>
    /\ UNCHANGED signerVars

\* sign_hash going on to its second exchange after a failed first one
sign_hash_phase_2_swallow(c, responses) ==
    /\ pc[c] = "sign_hash_1"
    /\ \E response \in responses, failed \in BOOLEAN :
          IF ~CanEncode(shifted_int(frame[c].hash_val))
          THEN Leave(c, Nothing, Raise(OverflowError))
          ELSE /\ inflight' = (inflight \ InFlightOf(c))
                    \cup {[caller |-> c, call |-> frame[c].call,
                           cmd |-> sign_hash_command_2(frame[c].hash_val)]}
               /\ log' = log \o <<Over(c),
                                  Sent(c, frame[c].call, frame[c].op,
                                       sign_hash_command_2(frame[c].hash_val))>>
               /\ pc' = [pc EXCEPT ![c] = "sign_hash_2"]
               /\ frame' = [frame EXCEPT ![c].failed = failed]
               /\ UNCHANGED ncalls
    /\ UNCHANGED signerVars

\* The first exchange is over: its response is dropped, the hash is
\* shifted and encoded, and the second command goes out (lines 83-95).
sign_hash_phase_2(c, responses) ==
    /\ pc[c] = "sign_hash_1"
    /\ \/ Fail(c)
       \/ \E response \in responses :
             IF ~CanEncode(shifted_int(frame[c].hash_val))
             THEN Leave(c, Nothing, Raise(OverflowError))
             ELSE /\ inflight' = (inflight \ InFlightOf(c))
                       \cup {[caller |-> c, call |-> frame[c].call,
                              cmd |-> sign_hash_command_2(frame[c].hash_val)]}
                  /\ log' = log \o <<Over(c),
                                     Sent(c, frame[c].call, frame[c].op,
                                          sign_hash_command_2(frame[c].hash_val))>>
                  /\ pc' = [pc EXCEPT ![c] = "sign_hash_2"]
                  /\ UNCHANGED <<frame, ncalls>>
    /\ UNCHANGED signerVars

\* The second exchange is over (lines 95-105).
sign_hash_return(c, responses) ==
    /\ pc[c] = "sign_hash_2"
    /\ \/ \E response \in responses :
             Leave(c, Some(response), sign_hash_result(response))
       \/ Fail(c)
    /\ UNCHANGED signerVars

\* The caller takes the outcome and is free for its next call.
Done(c) ==
    /\ pc[c] = "returned"
    /\ pc' = [pc EXCEPT ![c] = "idle"]
    /\ frame' = [frame EXCEPT ![c] = NoFrame]
    /\ UNCHANGED <<inflight, log, ncalls>>
    /\ UNCHANGED signerVars

\* ------------------------------------------------------------------------
\* LedgerSigner
\* ------------------------------------------------------------------------

\* Path strings: the test's path, cut or extended to n elements, with one
\* element replaced, behind each root marker.
MaxParts == 7

Hard(a) == a \o <<"'">>
N2645 == <<"2", "6", "4", "5">>
N1234 == <<"1", "2", "3", "4">>
N1195502025 == <<"1", "1", "9", "5", "5", "0", "2", "0", "2", "5">>
N1470455285 == <<"1", "4", "7", "0", "4", "5", "5", "2", "8", "5">>
\* 2^31 + 2645, 2^32 - 1, 2^32
N2147486293 == <<"2", "1", "4", "7", "4", "8", "6", "2", "9", "3">>
N4294967295 == <<"4", "2", "9", "4", "9", "6", "7", "2", "9", "5">>
N4294967296 == <<"4", "2", "9", "4", "9", "6", "7", "2", "9", "6">>

BasePart(i) ==
    CASE i = 1 -> Hard(N2645)
      [] i = 2 -> Hard(N1195502025)
      [] i = 3 -> Hard(N1470455285)
      [] i = 4 -> Hard(<<"0">>)
      [] i = 5 -> Hard(<<"0">>)
      [] OTHER -> <<"0">>

Elems ==
    {Hard(N2645), N2645, Hard(N1234), N2147486293, Hard(N4294967295),
     N4294967296, <<"0", "0", "7">>, <<"x">>, << >>, <<"'">>,
     <<"5", "'", "'">>, <<"m">>}

RootMarkers == {<<"m", "/">>, << >>, <<"/">>, <<"m", "m", "/", "/">>}

RECURSIVE Join(_)
Join(parts) ==
    IF parts = << >> THEN << >>
    ELSE IF Len(parts) = 1 THEN parts[1]
    ELSE parts[1] \o <<"/">> \o Join(Tail(parts))

PartSeqs ==
    UNION {{[i \in 1..n |-> IF i = k THEN e ELSE BasePart(i)] :
              k \in 1..(n + 1), e \in Elems} : n \in 1..MaxParts}

WidePathStrs == {<< >>} \cup {r \o Join(ps) : r \in RootMarkers, ps \in PartSeqs}

NarrowPathStrs ==
    {<< >>, TestPathStr, TestPathStr \o <<"/", "0">>,
     <<"m", "/">> \o Join([i \in 1..6 |-> IF i = 1 THEN Hard(N1234) ELSE BasePart(i)])}

\* LedgerSigner.__init__ keeping whatever path the string gave
LedgerSigner_init_unchecked(strs) ==
    /\ path_str = Nothing
    /\ \E derivation_path_str \in strs, chain_id \in ChainIds :
          LET parsed == ParseParts(Split(LStrip(derivation_path_str, {"m", "/"}), "/"),
                                   << >>)
          IN  /\ path_str' = Some(derivation_path_str)
              /\ init_err' = None
              /\ signer' = [exists |-> TRUE,
                            derivation_path |-> IF parsed.err # None THEN << >>
                                                ELSE parsed.path,
                            chain_id |-> chain_id]
    /\ encoded' = Nothing
    /\ UNCHANGED appVars

\* LedgerSigner.__init__ (lines 115-117): the path is parsed before the
\* object exists; a ValueError leaves no signer.  One construction a run.
LedgerSigner_init(strs) ==
    /\ path_str = Nothing
    /\ \E derivation_path_str \in strs, chain_id \in ChainIds :
          LET parsed == _parse_derivation_path_str(derivation_path_str)
          IN  /\ path_str' = Some(derivation_path_str)
              /\ init_err' = parsed.err
              /\ signer' = IF parsed.err # None THEN NoSigner
                           ELSE [exists |-> TRUE,
                                 derivation_path |-> parsed.path,
                                 chain_id |-> chain_id]
    /\ encoded' = Nothing
    /\ UNCHANGED appVars

\* _derivation_path_to_bytes(self.derivation_path), as get_public_key and
\* sign_hash take it first thing (lines 50, 77)
EncodeSignerPath ==
    /\ signer.exists
    /\ encoded = Nothing
    /\ encoded' = Some(_derivation_path_to_bytes(signer.derivation_path))
    /\ UNCHANGED <<path_str, signer, init_err>>
    /\ UNCHANGED appVars

\* The external hashing collaborators, AccountTransaction.calculate_hash
\* and TypedData.message_hash: some function of their arguments.
Transactions == {1, 2}
TypedDatas == {3, 4}
Addresses == {5, 6}
calculate_hash(transaction, chain_id) ==
    PyInt(<<transaction, IF chain_id = "MAINNET" THEN 77 ELSE 83>>)
message_hash(typed_data, account_address) ==
    PyInt(<<typed_data, account_address, 9>>)

\* LedgerSigner.public_key (lines 119-121): get_public_key with the
\* default device_confirmation=False, up to its exchange
public_key_call(c, limit) ==
    /\ signer.exists
    /\ ncalls < limit
    /\ EnterVia(c, "public_key", None, "get_public_key",
                signer.derivation_path, None, FALSE,
                get_public_key_command(signer.derivation_path, FALSE),
                "get_public_key")
    /\ UNCHANGED signerVars

\* sign_transaction hashing for one fixed chain
sign_transaction_call_mainnet(c, limit, transactions) ==
    /\ signer.exists
    /\ ncalls < limit
    /\ \E transaction \in transactions :
          LET tx_hash == calculate_hash(transaction, "MAINNET")
          IN  EnterVia(c, "sign_transaction", transaction, "sign_hash",
                       signer.derivation_path, tx_hash, None,
                       sign_hash_command_1(signer.derivation_path),
                       "sign_hash_1")
    /\ UNCHANGED signerVars

\* LedgerSigner.sign_transaction (lines 123-127), up to the first exchange
\* of sign_hash
sign_transaction_call(c, limit, transactions) ==
    /\ signer.exists
    /\ ncalls < limit
    /\ \E transaction \in transactions :
          LET tx_hash == calculate_hash(transaction, signer.chain_id)
          IN  EnterVia(c, "sign_transaction", transaction, "sign_hash",
                       signer.derivation_path, tx_hash, None,
                       sign_hash_command_1(signer.derivation_path),
                       "sign_hash_1")
    /\ UNCHANGED signerVars

\* LedgerSigner.sign_message (lines 129-133), up to the first exchange of
\* sign_hash
sign_message_call(c, limit, typed_datas, addresses) ==
    /\ signer.exists
    /\ ncalls < limit
    /\ \E typed_data \in typed_datas, account_address \in addresses :
          LET msg_hash == message_hash(typed_data, account_address)
          IN  EnterVia(c, "sign_message", <<typed_data, account_address>>,
                       "sign_hash", signer.derivation_path, msg_hash, None,
                       sign_hash_command_1(signer.derivation_path),
                       "sign_hash_1")
    /\ UNCHANGED signerVars

\* Calls a scenario with a LedgerSigner may start
MaxSignerCalls == 2

\* ------------------------------------------------------------------------
\* Specifications
\* ------------------------------------------------------------------------

\* Callers share one LedgerStarknetApp.
Next ==
    \E c \in Callers :
        \/ version_call(c, MaxCalls)
        \/ version_return(c, NarrowResponses)
        \/ get_public_key_call(c, MaxCalls, NarrowPaths)
        \/ get_public_key_return(c, NarrowResponses)
        \/ sign_hash_call(c, MaxCalls, NarrowPaths, NarrowHashes)
        \/ sign_hash_phase_2(c, NarrowResponses)
        \/ sign_hash_return(c, NarrowResponses)
        \/ Done(c)

Spec == Init /\ [][Next]_vars

\* One caller, one call at a time, any input.
NextSeq ==
    \/ version_call("A", MaxSeqCalls)
    \/ version_return("A", WideResponses)
    \/ get_public_key_call("A", MaxSeqCalls, WidePaths)
    \/ get_public_key_return("A", WideResponses)
    \/ sign_hash_call("A", MaxSeqCalls, WidePaths, WideHashes)
    \/ sign_hash_phase_2("A", WideResponses)
    \/ sign_hash_return("A", WideResponses)
    \/ Done("A")

SpecSeq == Init /\ [][NextSeq]_vars

\* Construction of a LedgerSigner from any path string.
NextParse ==
    \/ LedgerSigner_init(WidePathStrs)
    \/ EncodeSignerPath

SpecParse == Init /\ [][NextParse]_vars

\* One caller constructs a LedgerSigner and uses it.
NextSigner ==
    \/ LedgerSigner_init(NarrowPathStrs)
    \/ public_key_call("A", MaxSignerCalls)
    \/ sign_transaction_call("A", MaxSignerCalls, Transactions)
    \/ sign_message_call("A", MaxSignerCalls, TypedDatas, Addresses)
    \/ get_public_key_return("A", NarrowResponses)
    \/ sign_hash_phase_2("A", NarrowResponses)
    \/ sign_hash_return("A", NarrowResponses)
    \/ Done("A")

SpecSigner == Init /\ [][NextSigner]_vars

\* ------------------------------------------------------------------------
\* Properties
\* ------------------------------------------------------------------------

\* The call of c ended raising err, and so with no value
Raised(c, err) == frame[c].ret.kind = "raise" /\ frame[c].ret.err = err

\* The response the call of c took from its last exchange
ResponseOf(c) == frame[c].response[1]

\* What the transport recorded for call k, in order
CallEvents(k) == SelectSeq(log, LAMBDA e : e.call = k)
SendsAt == {i \in 1..Len(log) : log[i].ev = "send"}
SignHashCalls == {log[i].call : i \in {j \in 1..Len(log) : log[j].op = "sign_hash"}}
CommandOf(c) == (CHOOSE x \in InFlightOf(c) : TRUE).cmd

\* C1: the commands of two sign_hash requests on the one handle are never
\* interleaved in the recorded order: between two commands of one sign_hash
\* call no command of another sign_hash call is recorded.
C1_NoInterleaving ==
    \A i \in SendsAt, j \in SendsAt :
        (i < j /\ log[i].op = "sign_hash" /\ log[i].call = log[j].call)
        => \A k \in SendsAt :
              (i < k /\ k < j /\ log[k].op = "sign_hash")
              => log[k].call = log[i].call

\* C2: at most one command is in flight on the device handle at any time.
C2_OneInFlight == Cardinality(inflight) <= 1

\* C3: a sign_hash call sends the command carrying the encoded path, lets
\* that exchange end, then sends the command carrying the hash, and lets
\* that one end: the record of a call is a prefix of these four events, no
\* hash command without an ended path command before it, and a call that
\* returns a signature has made exactly the two exchanges, once each.
C3_TwoPhaseOrder ==
    /\ \A k \in SignHashCalls :
          LET ev == CallEvents(k)
          IN  /\ Len(ev) <= 4
              /\ ev[1].ev = "send" /\ ev[1].cmd.ins # 2
              /\ Len(ev) >= 2 => ev[2].ev = "over" /\ ev[2].cmd = ev[1].cmd
              /\ Len(ev) >= 3 => /\ ev[3].ev = "send"
                                 /\ ev[3].cmd.ins = 2 /\ ev[3].cmd.p1 = 1
                                 /\ Len(ev[3].cmd.data) = 32
              /\ Len(ev) >= 4 => ev[4].ev = "over" /\ ev[4].cmd = ev[3].cmd
    /\ \A c \in Callers :
          frame[c].op = "sign_hash" =>
              LET ev == CallEvents(frame[c].call)
              IN  /\ ev[1].cmd.data
                        = _derivation_path_to_bytes(frame[c].derivation_path)
                  /\ pc[c] = "sign_hash_1" => Len(ev) = 1
                  /\ pc[c] = "sign_hash_2" => Len(ev) = 3
                  /\ frame[c].ret.kind = "return" => Len(ev) = 4

\* a sign_hash call has returned a signature while the other caller's
\* sign_hash call was under way
C3_Witness ==
    \E c \in Callers, d \in Callers :
        /\ c # d
        /\ frame[c].op = "sign_hash" /\ frame[c].ret.kind = "return"
        /\ frame[d].op = "sign_hash" /\ frame[d].call < frame[c].call

\* The second response a sign_hash call got, if it got one
GotSignResponse(c) ==
    /\ frame[c].op = "sign_hash" /\ pc[c] = "returned"
    /\ frame[c].response # Nothing

\* C4: when the second response is not SIGNATURE_LENGTH + 1 bytes long or
\* its first byte is not SIGNATURE_LENGTH, sign_hash raises
\* UnexpectedResponseLength and hands out no value; it returns a pair only
\* when both checks pass.
C4_NoPartialSignature ==
    \A c \in Callers :
        GotSignResponse(c) =>
            LET response == ResponseOf(c)
                good == /\ Len(response) = SIGNATURE_LENGTH + 1
                        /\ response[1] = SIGNATURE_LENGTH
            IN  IF good
                THEN frame[c].ret.kind = "return" /\ Len(frame[c].ret.val) = 2
                ELSE Raised(c, UnexpectedResponseLength)

\* a response of the right length with a wrong tag byte was refused
C4_Witness ==
    \E c \in Callers :
        /\ GotSignResponse(c)
        /\ Len(ResponseOf(c)) = SIGNATURE_LENGTH + 1
        /\ ResponseOf(c)[1] # SIGNATURE_LENGTH
        /\ frame[c].ret.kind = "raise"

\* n is the unsigned integer whose 32-byte big-endian form is b
IsBigEndianOf(n, b) == n = Strip(n) /\ Len(n) <= 32 /\ ToBytes(n, 32) = b

\* C5: for a response of 65 bytes with first byte 64, sign_hash returns
\* [r, s], r the big-endian integer of bytes 1..32 and s that of bytes
\* 33..64 (counted from 0), in that order.
C5_SignatureHalves ==
    \A c \in Callers :
        (/\ GotSignResponse(c)
         /\ Len(ResponseOf(c)) = 65
         /\ ResponseOf(c)[1] = 64)
        => /\ frame[c].ret.kind = "return"
           /\ Len(frame[c].ret.val) = 2
           /\ IsBigEndianOf(frame[c].ret.val[1], SubSeq(ResponseOf(c), 2, 33))
           /\ IsBigEndianOf(frame[c].ret.val[2], SubSeq(ResponseOf(c), 34, 65))

\* a signature was returned whose halves differ
C5_Witness ==
    \E c \in Callers :
        /\ GotSignResponse(c)
        /\ frame[c].ret.kind = "return"
        /\ frame[c].ret.val[1] # frame[c].ret.val[2]
        /\ frame[c].ret.val[1] # << >>

\* C6: the payload of the second command is 32 bytes long and is the
\* big-endian form of hash_val * 16.
C6_ShiftedPayload ==
    \A c \in Callers :
        pc[c] = "sign_hash_2" =>
            /\ Len(CommandOf(c).data) = 32
            /\ ~frame[c].hash_val.neg
            /\ Strip(CommandOf(c).data) = MulAdd(frame[c].hash_val.mag, 16, 0)
            /\ log[Len(log)] = Sent(c, frame[c].call, "sign_hash", CommandOf(c))

\* the second command is out for the largest hash that fits
C6_Witness ==
    \E c \in Callers :
        /\ pc[c] = "sign_hash_2"
        /\ frame[c].hash_val = MaxHash
        /\ CommandOf(c).data[1] = 255

\* The response a get_public_key call got, if it got one
GotKeyResponse(c) ==
    /\ frame[c].op = "get_public_key" /\ pc[c] = "returned"
    /\ frame[c].response # Nothing

\* C7: a get-public-key response whose length is not PUBLIC_KEY_LENGTH makes
\* get_public_key raise UnexpectedResponseLength, and no key comes out.
C7_KeyLengthChecked ==
    \A c \in Callers :
        (GotKeyResponse(c) /\ Len(ResponseOf(c)) # PUBLIC_KEY_LENGTH)
        => Raised(c, UnexpectedResponseLength)

\* a response one byte too long, from which a key could be cut, was refused
C7_Witness ==
    \E c \in Callers :
        /\ GotKeyResponse(c)
        /\ Len(ResponseOf(c)) = PUBLIC_KEY_LENGTH + 1
        /\ frame[c].ret.kind = "raise"

\* C8: the flag byte of the get-public-key command reflects confirm: two
\* calls that differ in device_confirmation send commands that differ in p1.
C8_FlagReflectsConfirm ==
    \A c \in Callers, d \in Callers :
        (/\ pc[c] = "get_public_key" /\ pc[d] = "get_public_key"
         /\ frame[c].device_confirmation # frame[d].device_confirmation)
        => CommandOf(c).p1 # CommandOf(d).p1

\* LedgerSigner(...) has been evaluated
Tried == path_str # Nothing
PathStr == path_str[1]

\* C9: LedgerSigner("") fails with the empty-path error, whatever the later
\* checks would have said of it.
C9_EmptyPath ==
    (Tried /\ PathStr = << >>) => init_err = EmptyPathError /\ ~signer.exists

C9_Witness == Tried /\ PathStr = << >> /\ init_err = EmptyPathError

\* The elements of a path string, as the parser cuts them
PartsOf(str) == Split(LStrip(str, {"m", "/"}), "/")
WrongCount == Tried /\ PathStr # << >> /\ Len(PartsOf(PathStr)) # 6

\* C10 as stated: every non-empty path string with a number of elements
\* other than 6 fails with the length error.
C10_LengthErrorAlways == WrongCount => init_err = LengthError

\* C10, amended: every non-empty path string with a number of elements
\* other than 6, each element a valid index, fails with the length error
\* and no signer is made.
C10_LengthError ==
    (WrongCount /\ \A i \in 1..Len(PartsOf(PathStr)) :
                       ParsePart(PartsOf(PathStr)[i]).err = None)
    => init_err = LengthError /\ ~signer.exists

\* seven elements behind the hardened purpose 2645 gave the length error
C10_Witness ==
    /\ WrongCount
    /\ Len(PartsOf(PathStr)) = 7
    /\ PartsOf(PathStr)[1] = Hard(N2645)
    /\ init_err = LengthError

\* Every element of the path string converts to an index
AllValid == \A i \in 1..Len(PartsOf(PathStr)) : ParsePart(PartsOf(PathStr)[i]).err = None
\* The first element is, as an index, the hardened purpose 2645
FirstIsPurpose ==
    /\ ParsePart(PartsOf(PathStr)[1]).err = None
    /\ ParsePart(PartsOf(PathStr)[1]).index = EIP_2645_PURPOSE
SixParts == Tried /\ PathStr # << >> /\ Len(PartsOf(PathStr)) = 6

\* C11 as stated: every path string of exactly 6 elements whose first
\* element is not the hardened purpose 2645 fails with the prefix error.
C11_PrefixErrorAlways ==
    (SixParts /\ ~FirstIsPurpose) => init_err = PrefixError

\* C11, amended: every path string of exactly 6 elements, each a valid
\* index, whose first element is not the hardened purpose 2645 (the plain
\* 2645 included) fails with the prefix error and no signer is made; with a
\* wrong length as well it fails with the length error.
C11_PrefixError ==
    /\ (SixParts /\ AllValid /\ ~FirstIsPurpose)
       => init_err = PrefixError /\ ~signer.exists
    /\ (WrongCount /\ AllValid /\ ~FirstIsPurpose) => init_err = LengthError

\* six elements behind the plain 2645 gave the prefix error
C11_Witness ==
    /\ SixParts
    /\ PartsOf(PathStr)[1] = N2645
    /\ init_err = PrefixError

\* The index an element stands for: its digits' value, with bit 31 set
\* when the element ends in an apostrophe
ExpectedIndex(part) ==
    IF part[Len(part)] = "'"
    THEN LET b == ToBytes(ParseInt(SubSeq(part, 1, Len(part) - 1)), 4)
         IN  <<IF b[1] < 128 THEN b[1] + 128 ELSE b[1], b[2], b[3], b[4]>>
    ELSE ParseInt(part)

\* C12: a path string of 6 valid elements whose first is 2645' parses, each
\* element to its index (hardened when it ends in an apostrophe, plain
\* otherwise), and the parsed path encodes to 24 bytes, the 4-byte
\* big-endian forms of the indices in path order.
C12_ParseAndEncode ==
    (SixParts /\ AllValid /\ PartsOf(PathStr)[1] = Hard(N2645))
    => /\ init_err = None
       /\ signer.exists
       /\ Len(signer.derivation_path) = 6
       /\ \A i \in 1..6 :
             signer.derivation_path[i] = ExpectedIndex(PartsOf(PathStr)[i])
       /\ encoded # Nothing =>
             /\ Len(encoded[1]) = 24
             /\ \A i \in 1..6 :
                   /\ SubSeq(encoded[1], 4 * i - 3, 4 * i)
                         = ToBytes(signer.derivation_path[i], 4)
                   /\ Strip(SubSeq(encoded[1], 4 * i - 3, 4 * i))
                         = signer.derivation_path[i]

\* the test's path was parsed and encoded
C12_Witness ==
    /\ Tried /\ PathStr = TestPathStr
    /\ encoded # Nothing
    /\ SubSeq(encoded[1], 1, 8) = <<128, 0, 10, 85, 199, 65, 233, 201>>

\* The signer's path is one the parser accepts
ValidSignerPath ==
    /\ Len(signer.derivation_path) = 6
    /\ signer.derivation_path[1] = <<128, 0, 10, 85>>

\* C13: a LedgerSigner that exists holds a path of 6 elements whose first
\* is the hardened purpose 2645; a construction that raised left no signer,
\* and without a signer no operation has been started;
\* and no step, once the signer exists, changes its path or chain id.
C13_SignerInvariant ==
    /\ [](signer.exists => ValidSignerPath)
    /\ [](init_err # None => ~signer.exists)
    /\ [](~signer.exists => ncalls = 0)
    /\ [][signer.exists => signer' = signer]_vars

\* a signer exists and one of its sign methods has come back
C13_Witness ==
    /\ signer.exists
    /\ pc["A"] = "returned"
    /\ frame["A"].via = "sign_transaction"

\* A call made through sign_transaction or sign_message
ViaSign(c) == frame[c].via = "sign_transaction" \/ frame[c].via = "sign_message"
SendsOf(k) == SelectSeq(CallEvents(k), LAMBDA e : e.ev = "send")

\* C15: sign_transaction signs calculate_hash(chain_id) for the signer's own
\* chain id, sign_message signs message_hash(account_address); both hand
\* sign_hash the signer's path, make one sign_hash (one path command, at most
\* one hash command, which carries that hash), and what sign_hash returns
\* or raises is their outcome.
C15_SignerSigns ==
    \A c \in Callers :
        ViaSign(c) =>
            LET sends == SendsOf(frame[c].call)
                hash == IF frame[c].via = "sign_transaction"
                        THEN calculate_hash(frame[c].arg, signer.chain_id)
                        ELSE message_hash(frame[c].arg[1], frame[c].arg[2])
            IN  /\ frame[c].op = "sign_hash"
                /\ frame[c].hash_val = hash
                /\ frame[c].derivation_path = signer.derivation_path
                /\ Len(sends) \in {1, 2}
                /\ sends[1].cmd.data = _derivation_path_to_bytes(signer.derivation_path)
                /\ Len(sends) = 2 =>
                      /\ sends[2].cmd.ins = 2
                      /\ Strip(sends[2].cmd.data) = MulAdd(hash.mag, 16, 0)
                /\ (pc[c] = "returned" /\ frame[c].response # Nothing) =>
                      frame[c].ret = sign_hash_result(ResponseOf(c))
                /\ frame[c].failed => Raised(c, DeviceCommunicationError)

\* sign_transaction has returned a signature for a signer on the second chain
C15_Witness ==
    /\ signer.exists /\ signer.chain_id = "SEPOLIA"
    /\ frame["A"].via = "sign_transaction"
    /\ frame["A"].ret.kind = "return"

\* The events of a call alternate command sent / exchange over
RECURSIVE Alternates(_)
Alternates(events) ==
    IF events = << >> THEN TRUE
    ELSE /\ events[1].ev = "send"
         /\ Len(events) >= 2 => /\ events[2].ev = "over"
                                /\ events[2].cmd = events[1].cmd
                                /\ Alternates(SubSeq(events, 3, Len(events)))

\* C14: a call whose exchange failed with DeviceCommunicationError has ended
\* raising that error; the failed exchange is the last event of the call, no
\* command of the call went out twice, and a sign_hash whose first exchange
\* failed has sent its path command and nothing else.
C14_TransportFailure ==
    \A c \in Callers :
        frame[c].failed =>
            LET events == CallEvents(frame[c].call)
                sends == SendsOf(frame[c].call)
            IN  /\ pc[c] = "returned"
                /\ Raised(c, DeviceCommunicationError)
                /\ frame[c].response = Nothing
                /\ Alternates(events)
                /\ events[Len(events)].ev = "over"
                /\ \A i, j \in 1..Len(sends) : i # j => sends[i].cmd # sends[j].cmd
                /\ Len(sends) <= IF frame[c].op = "sign_hash" THEN 2 ELSE 1
                /\ (frame[c].op = "sign_hash" /\ Len(sends) = 2) =>
                      /\ sends[1].cmd.ins = 0
                      /\ sends[2].cmd.ins = 2
                /\ InFlightOf(c) = {}

\* the first exchange of a sign_hash has failed: one command, one failure
C14_Witness ==
    /\ frame["A"].failed
    /\ frame["A"].op = "sign_hash"
    /\ Len(CallEvents(frame["A"].call)) = 2

\* C16: for a get-public-key response of PUBLIC_KEY_LENGTH bytes,
\* get_public_key returns the big-endian unsigned integer of bytes 1..32
\* (counted from 0), and every response of that length with the same bytes
\* 1..32 gives the same key, whatever its byte 0 and its bytes from 33 on.
C16_KeyFromBytes ==
    \A c \in Callers :
        (GotKeyResponse(c) /\ Len(ResponseOf(c)) = PUBLIC_KEY_LENGTH)
        => /\ frame[c].ret.kind = "return"
           /\ IsBigEndianOf(frame[c].ret.val, SubSeq(ResponseOf(c), 2, 33))
           /\ \A other \in WideResponses :
                 (/\ Len(other) = PUBLIC_KEY_LENGTH
                  /\ SubSeq(other, 2, 33) = SubSeq(ResponseOf(c), 2, 33))
                 => get_public_key_result(other).val = frame[c].ret.val

\* a key came out of a response whose byte 0 is not a length of anything
\* and whose tail is not zero
C16_Witness ==
    \E c \in Callers :
        /\ GotKeyResponse(c)
        /\ frame[c].ret.kind = "return"
        /\ frame[c].ret.val # << >>
        /\ ResponseOf(c)[1] = 4
        /\ ResponseOf(c)[65] # 0

\* The response a version call got, if it got one
GotVersionResponse(c) ==
    /\ frame[c].op = "version" /\ pc[c] = "returned"
    /\ frame[c].response # Nothing

\* C17: a version call sends one command, the version query with no payload;
\* a response of 3 bytes gives the string of the three bytes in decimal, in
\* the order received, with a dot between them; a response of any other
\* length raises UnexpectedResponseLength and gives no string.
C17_Version ==
    \A c \in Callers :
        /\ frame[c].op = "version" =>
              LET sends == SendsOf(frame[c].call)
              IN  /\ Len(sends) = 1
                  /\ sends[1].cmd = version_command
                  /\ sends[1].cmd.data = << >>
        /\ GotVersionResponse(c) =>
              IF Len(ResponseOf(c)) = 3
              THEN /\ frame[c].ret.kind = "return"
                   /\ LET parts == Split(frame[c].ret.val, ".")
                      IN  /\ Len(parts) = 3
                          /\ \A i \in 1..3 :
                                /\ IsIntLiteral(parts[i])
                                /\ ParseInt(parts[i]) = Strip(<<ResponseOf(c)[i]>>)
              ELSE Raised(c, UnexpectedResponseLength)

\* a version of three different numbers, one of them of three digits
C17_Witness ==
    \E c \in Callers :
        /\ GotVersionResponse(c)
        /\ frame[c].ret.kind = "return"
        /\ ResponseOf(c) = <<10, 200, 255>>

\* What the step that ends the first exchange of c's sign_hash leaves
\* behind, for each way the exchange can end
AfterPhase1(c) ==
    \/ /\ frame'[c].failed
       /\ frame'[c].ret = Raise(DeviceCommunicationError)
    \/ /\ ~CanEncode(shifted_int(frame[c].hash_val))
       /\ pc'[c] = "returned"
       /\ frame'[c] = [frame[c] EXCEPT !.ret = Raise(OverflowError)]
    \/ /\ CanEncode(shifted_int(frame[c].hash_val))
       /\ pc'[c] = "sign_hash_2"
       /\ frame'[c] = frame[c]
       /\ inflight' = (inflight \ InFlightOf(c))
             \cup {[caller |-> c, call |-> frame[c].call,
                    cmd |-> sign_hash_command_2(frame[c].hash_val)]}
       /\ log' = log \o <<Over(c), Sent(c, frame[c].call, "sign_hash",
                                        sign_hash_command_2(frame[c].hash_val))>>

\* C18: whatever the first exchange of a sign_hash answers, if it completes
\* the call goes on in one way fixed by hash_val alone, sending the second
\* command built from hash_val; what the call returns or raises is then a
\* function of the second response alone.
C18_Phase1ResponseIgnored ==
    /\ [][\A c \in Callers :
            (pc[c] = "sign_hash_1" /\ pc'[c] # "sign_hash_1") => AfterPhase1(c)]_vars
    /\ [](\A c \in Callers :
            GotSignResponse(c) =>
                /\ frame[c].ret = sign_hash_result(ResponseOf(c))
                /\ Len(SendsOf(frame[c].call)) = 2)

\* a sign_hash went through both exchanges and came back with two numbers
C18_Witness ==
    \E c \in Callers :
        /\ GotSignResponse(c)
        /\ Len(SendsOf(frame[c].call)) = 2
        /\ frame[c].ret.kind = "return"
        /\ frame[c].hash_val = MaxHash

\* The header of a command, and which of the four commands a recorded
\* send is: the first send of a sign_hash call is its path registration
Header(cmd) == <<cmd.ins, cmd.p1, cmd.p2>>
KindOf(i) ==
    IF log[i].op # "sign_hash" THEN log[i].op
    ELSE IF \E j \in SendsAt : j < i /\ log[j].call = log[i].call
         THEN "sign_hash_2"
         ELSE "sign_hash_1"

\* C19: commands of different kinds (version, get_public_key, sign_hash
\* phase 1, sign_hash phase 2) never carry the same (ins, p1, p2) header,
\* and the two phases of one sign_hash carry the same ins and different p1.
C19_DistinctHeaders ==
    \A i \in SendsAt, j \in SendsAt :
        /\ KindOf(i) # KindOf(j) => Header(log[i].cmd) # Header(log[j].cmd)
        /\ (/\ KindOf(i) = "sign_hash_1" /\ KindOf(j) = "sign_hash_2"
            /\ log[i].call = log[j].call)
           => /\ log[i].cmd.ins = log[j].cmd.ins
              /\ log[i].cmd.p1 # log[j].cmd.p1

\* C20: a sign_hash whose hash_val is negative or, shifted by 4 bits, does
\* not fit 32 bytes, has sent no command.
C20_RejectBeforeDevice ==
    \A c \in Callers :
        (frame[c].op = "sign_hash" /\ ~CanEncode(shifted_int(frame[c].hash_val)))
        => SendsOf(frame[c].call) = << >>

====
